---- MODULE Spec2Model ----
(***************************************************************************)
(* Xen HVM driver (src/arch/x86/drivers/xen/hvm.c): attach (hvm_probe),    *)
(* detach (hvm_remove) and the mappers they sequence.                      *)
(*                                                                         *)
(* Pointers are modelled by the physical address they refer to (0 is       *)
(* NULL).  The platform and the hypervisor are the environment: every      *)
(* status they return is an input of the action that issues the call.      *)
(* `log' is the observable sequence of calls made to them.                 *)
(***************************************************************************)
EXTENDS Integers, Sequences, FiniteSets, TLC

VARIABLES
    pc,           \* position of the driver: which step of hvm_probe is next
    live,         \* the struct hvm_device exists (zalloc'd, not yet freed)
    hvm,          \* the fields of struct hvm_device
    dma,          \* regions currently allocated by malloc_dma
    vmap,         \* physical bases currently mapped by ioremap
    physmap,      \* guest frames currently added to the physical address map
    log,          \* calls issued so far, in order
    rc,           \* status returned by hvm_probe
    drvdata,      \* pci_get_drvdata ( pci ): 0, or HvmPtr
    cpuid_table   \* the CPUID leaves that hold the magic signature

vars == << pc, live, hvm, dma, vmap, physmap, log, rc, drvdata, cpuid_table >>

-----------------------------------------------------------------------------
(* Bounds of the model *)

MaxWindowPages == 3
MaxFrames == 2
MaxHypercallPages == 1
\* calls of hvm_ioremap made on one device by the allocator's callers
MaxCalls == 2
\* add requests the hypervisor accepts of a call for 2^20 pages or more
\* before it rejects one
MaxAccepted == 2

-----------------------------------------------------------------------------
(* Program constants *)

PAGE_SIZE == 4096
\* unsigned int arithmetic of ( pages * PAGE_SIZE ) wraps at 2^32 bytes,
\* that is at 2^32 / PAGE_SIZE pages
UINT_PAGES == 1048576
\* sizeof ( hvm->xen.grant.table[0] ), a union grant_entry_v2
GRANT_ENTRY_SIZE == 16

HVM_CPUID_MIN == 1073741824
HVM_CPUID_MAX == 1073807104
HVM_CPUID_STEP == 256

ENOMEM == 12
ENODEV == 19
ENOTTY == 25
\* -EXEN ( xenrc ): the hypervisor's status carried inside an iPXE error
EXEN(xenrc) == 1000 + ( 0 - xenrc )

XENMAPSPACE_shared_info == 0
XENMAPSPACE_grant_table == 1

-----------------------------------------------------------------------------
(* Inputs supplied by the environment *)

\* negative statuses a hypercall can return
XenErrors == { -1, -22 }
XenStatus == { 0 } \cup XenErrors
\* statuses of xenstore_read and xenbus_probe (iPXE error codes)
IpxeErrors == { -5 }

\* pci_bar_start ( pci, HVM_MMIO_BAR )
MmioBase == 65536 * PAGE_SIZE
\* address returned by malloc_dma
HypercallPhys == 16 * PAGE_SIZE
\* address returned by zalloc
HvmPtr == 8 * PAGE_SIZE
\* HVM_PARAM_STORE_PFN values: frames outside the MMIO window
StorePfns == { 262142 }
StoreEvtchns == { 2 }

\* pci_bar_size ( pci, HVM_MMIO_BAR ): no room at all, room for the shared
\* info page alone, room for MaxWindowPages pages
WindowLens == { 0, PAGE_SIZE, MaxWindowPages * PAGE_SIZE }
WindowGpfns ==
    { ( MmioBase \div PAGE_SIZE ) + k : k \in 0 .. ( MaxWindowPages - 1 ) }
\* values an uninitialised guest frame number can hold
GarbageGpfns == WindowGpfns \cup { 0 }

\* CPUID leaves at which a table may hold the signature: on the scanned
\* stride (first, second, last), off the stride, and past the range
SampleLeaves ==
    { HVM_CPUID_MIN, HVM_CPUID_MIN + HVM_CPUID_STEP, HVM_CPUID_MAX,
      HVM_CPUID_MIN + 128, HVM_CPUID_MAX + HVM_CPUID_STEP }
\* the CPUID tables tried: the signature at none or one of these leaves, at
\* two scanned leaves, and at two leaves that are not scanned
CpuidTables ==
    { t \in SUBSET SampleLeaves : Cardinality ( t ) <= 1 }
    \cup { { HVM_CPUID_MIN + HVM_CPUID_STEP, HVM_CPUID_MAX },
           { HVM_CPUID_MIN + 128, HVM_CPUID_MAX + HVM_CPUID_STEP } }

-----------------------------------------------------------------------------
(* The record of calls *)

Ev(op, k, i, p, st) == [ op |-> op, k |-> k, i |-> i, p |-> p, st |-> st ]

Emit(w, e) == [ w EXCEPT !.log = Append ( @, e ) ]

\* struct hvm_device as zalloc leaves it
HvmZero ==
    [ cpuid_base |-> 0, hypercall |-> 0, hypercall_len |-> 0,
      mmio |-> 0, mmio_len |-> 0, mmio_offset |-> 0,
      shared |-> 0, grant_table |-> 0, grant_count |-> 0,
      store_intf |-> 0, store_port |-> 0 ]

\* the driver's world, as the operators below pass it along
World ==
    [ live |-> live, hvm |-> hvm, dma |-> dma, vmap |-> vmap,
      physmap |-> physmap, log |-> log ]

Init ==
    /\ pc = "unprobed"
    /\ live = FALSE
    /\ hvm = HvmZero
    /\ dma = {}
    /\ vmap = {}
    /\ physmap = {}
    /\ log = << >>
    /\ rc = 0
    /\ drvdata = 0
    /\ cpuid_table = {}

-----------------------------------------------------------------------------
(* Hypervisor Locator *)

\* result of the scan when no leaf matches
NoBase == 0 - 1

\* the leaf the for loop of hvm_cpuid_base reads in its k-th iteration
ScanLeaf(k) == HVM_CPUID_MIN + ( k * HVM_CPUID_STEP )

\* the loop condition with the last leaf left out
ScanContinues_exclusive(base) == base < HVM_CPUID_MAX

\* the loop condition of hvm_cpuid_base
ScanContinues(base) == base <= HVM_CPUID_MAX

\* the iterations the loop runs when no signature stops it
ScanIterations ==
    { k \in 0 .. ( ( HVM_CPUID_MAX - HVM_CPUID_MIN ) \div HVM_CPUID_STEP ) + 1 :
        ScanContinues ( ScanLeaf ( k ) ) }

\* the for loop of hvm_cpuid_base: the leaf of the first iteration whose
\* signature matches, NoBase when the loop runs out
ScanFrom(table) ==
    LET hits == { k \in ScanIterations : ScanLeaf ( k ) \in table } IN
    IF hits = {}
    THEN NoBase
    ELSE ScanLeaf ( CHOOSE k \in hits : \A j \in hits : k <= j )

hvm_cpuid_base(w, table) ==
    LET base == ScanFrom ( table ) IN
    IF base # NoBase
    THEN [ w |-> Emit ( [ w EXCEPT !.hvm.cpuid_base = base ],
                        Ev ( "hvm_cpuid_base", 0, 0, base, 0 ) ),
           rc |-> 0 ]
    ELSE [ w |-> Emit ( w, Ev ( "hvm_cpuid_base", 0, 0, 0, 0 - ENODEV ) ),
           rc |-> 0 - ENODEV ]

-----------------------------------------------------------------------------
(* Hypercall Transport *)

\* the version asked for before the register write installs the pages
query_then_write(w, version) ==
    Emit ( Emit ( w, Ev ( "xenver_version", 0, 0, 0, version ) ),
           Ev ( "wrmsr", 0, 0, w.hvm.hypercall, 0 ) )

\* wrmsr ( hvm->hypercall's address ), then the first use of the pages
write_then_query(w, version) ==
    Emit ( Emit ( w, Ev ( "wrmsr", 0, 0, w.hvm.hypercall, 0 ) ),
           Ev ( "xenver_version", 0, 0, 0, version ) )

\* in: [ pages, dmaOk, version, xenrc ]
\*   pages   number of hypercall pages reported by CPUID
\*   dmaOk   malloc_dma succeeds
\*   version value returned by xenver_version (negative: a failure status)
\*   xenrc   status of xenver_extraversion
hvm_map_hypercall(w, in) ==
    LET len == in.pages * PAGE_SIZE
        w1 == [ w EXCEPT !.hvm.hypercall_len = len ]
    IN
    IF ~ in.dmaOk
    THEN [ w |-> Emit ( Emit ( [ w1 EXCEPT !.hvm.hypercall = 0 ],
                               Ev ( "malloc_dma", 0, in.pages, 0, 0 - ENOMEM ) ),
                        Ev ( "hvm_map_hypercall", 0, 0, 0, 0 - ENOMEM ) ),
           rc |-> 0 - ENOMEM ]
    ELSE
    LET w2 == Emit ( [ w1 EXCEPT !.hvm.hypercall = HypercallPhys,
                                 !.dma = @ \cup { HypercallPhys } ],
                     Ev ( "malloc_dma", 0, in.pages, HypercallPhys, 0 ) )
        w4 == write_then_query ( w2, in.version )
        w5 == Emit ( w4, Ev ( "xenver_extraversion", 0, 0, 0, in.xenrc ) )
    IN
    IF in.xenrc # 0
    THEN [ w |-> Emit ( w5, Ev ( "hvm_map_hypercall", 0, 0, 0,
                                 0 - EXEN ( in.xenrc ) ) ),
           rc |-> 0 - EXEN ( in.xenrc ) ]
    ELSE [ w |-> Emit ( w5, Ev ( "hvm_map_hypercall", 0, 0, 0, 0 ) ),
           rc |-> 0 ]

hvm_unmap_hypercall(w) ==
    LET w1 == Emit ( w, Ev ( "hvm_unmap_hypercall", 0, 0, 0, 0 ) ) IN
    Emit ( [ w1 EXCEPT !.dma = @ \ { w.hvm.hypercall } ],
           Ev ( "free_dma", 0, 0, w.hvm.hypercall, 0 ) )

-----------------------------------------------------------------------------
(* MMIO Window Allocator *)

\* the hypervisor's answer to a remove request for `gpfn': it rejects the
\* frames of `rej', and drops any other frame from the physical address map
xenmem_remove_from_physmap(w, gpfn, rej) ==
    IF gpfn \in rej
    THEN Emit ( w, Ev ( "remove_from_physmap", 0, 0, gpfn, 0 - 22 ) )
    ELSE Emit ( [ w EXCEPT !.physmap = @ \ { gpfn } ],
                Ev ( "remove_from_physmap", 0, 0, gpfn, 0 ) )

RECURSIVE AddLoop(_, _, _, _, _, _)
\* the add loop of hvm_ioremap from index i on: [ w, i, failed ]
AddLoop(w, space, mmio_phys, i, pages, in) ==
    IF i < pages
    THEN LET gpfn == ( mmio_phys \div PAGE_SIZE ) + i IN
         IF i = in.failAt
         THEN [ w |-> Emit ( w, Ev ( "add_to_physmap", space, i, gpfn,
                                     in.xenrc ) ),
                i |-> i, failed |-> TRUE ]
         ELSE AddLoop ( Emit ( [ w EXCEPT !.physmap = @ \cup { gpfn } ],
                               Ev ( "add_to_physmap", space, i, gpfn, 0 ) ),
                        space, mmio_phys, i + 1, pages, in )
    ELSE [ w |-> w, i |-> i, failed |-> FALSE ]

RECURSIVE RollbackLoop(_, _, _, _)
\* the loop after err_add_to_physmap, at index i.  It stores the frame
\* number in add.gpfn, so remove.gpfn is never written: every request
\* carries whatever the uninitialised field holds (in.garbage).
RollbackLoop(w, mmio_phys, i, in) ==
    IF i >= 0
    THEN RollbackLoop ( xenmem_remove_from_physmap ( w, in.garbage, in.rej ),
                        mmio_phys, i - 1, in )
    ELSE w

\* the space check with the bump offset forgotten
no_space_ignoring_offset(w, len) == len > w.hvm.mmio_len

\* the check for available space of hvm_ioremap
no_space(w, len) == ( w.hvm.mmio_offset + len ) > w.hvm.mmio_len

\* the bump offset left where it was
next_offset_stuck(w, len) == w.hvm.mmio_offset

\* the bump offset advanced by one page whatever the length
next_offset_one_page(w, len) == w.hvm.mmio_offset + PAGE_SIZE

\* hvm->mmio_offset += len
next_offset(w, len) == w.hvm.mmio_offset + len

\* in: [ ioOk, failAt, xenrc, garbage, rej ]
\*   ioOk    ioremap succeeds
\*   failAt  index of the add request the hypervisor rejects (none if it
\*           is not below the page count), with status xenrc
\*   garbage content of the uninitialised remove.gpfn
\*   rej     frames whose removal the hypervisor rejects
\* Result: [ w, mmio ], mmio = 0 for NULL
hvm_ioremap(w, space, pages, in) ==
    LET len == ( pages % UINT_PAGES ) * PAGE_SIZE
        phys == w.hvm.mmio + w.hvm.mmio_offset
        w0 == Emit ( w, Ev ( "hvm_ioremap", space, pages, 0, 0 ) )
    IN
    IF no_space ( w, len )
    THEN [ w |-> Emit ( w0, Ev ( "hvm_ioremap.ret", space, pages, 0, 0 ) ),
           mmio |-> 0 ]
    ELSE IF ~ in.ioOk
    THEN [ w |-> Emit ( Emit ( w0, Ev ( "ioremap", 0, len, phys, 0 - 1 ) ),
                        Ev ( "hvm_ioremap.ret", space, pages, 0, 0 ) ),
           mmio |-> 0 ]
    ELSE
    LET w1 == Emit ( [ w0 EXCEPT !.vmap = @ \cup { phys } ],
                     Ev ( "ioremap", 0, len, phys, 0 ) )
        added == AddLoop ( w1, space, phys, 0, pages, in )
    IN
    IF added.failed
    THEN LET w2 == RollbackLoop ( added.w, phys, added.i - 1, in )
             w3 == Emit ( [ w2 EXCEPT !.vmap = @ \ { phys } ],
                          Ev ( "iounmap", 0, 0, phys, 0 ) )
         IN [ w |-> Emit ( w3, Ev ( "hvm_ioremap.ret", space, pages, 0, 0 ) ),
              mmio |-> 0 ]
    ELSE [ w |-> Emit ( [ added.w EXCEPT
                              !.hvm.mmio_offset = next_offset ( added.w, len ) ],
                        Ev ( "hvm_ioremap.ret", space, pages, phys, 0 ) ),
           mmio |-> phys ]

RECURSIVE RemoveLoop(_, _, _, _, _)
\* the remove loop of hvm_iounmap from index i on
RemoveLoop(w, mmio_phys, i, pages, rej) ==
    IF i < pages
    THEN RemoveLoop ( xenmem_remove_from_physmap (
                          w, ( mmio_phys \div PAGE_SIZE ) + i, rej ),
                      mmio_phys, i + 1, pages, rej )
    ELSE w

RECURSIVE RemoveLoop_stops(_, _, _, _, _)
\* a remove loop that gives up at the first rejected removal
RemoveLoop_stops(w, mmio_phys, i, pages, rej) ==
    IF i < pages
    THEN IF ( ( mmio_phys \div PAGE_SIZE ) + i ) \in rej
         THEN xenmem_remove_from_physmap (
                  w, ( mmio_phys \div PAGE_SIZE ) + i, rej )
         ELSE RemoveLoop_stops ( xenmem_remove_from_physmap (
                                     w, ( mmio_phys \div PAGE_SIZE ) + i, rej ),
                                 mmio_phys, i + 1, pages, rej )
    ELSE w

\* hvm_iounmap with that loop
hvm_iounmap_stops(w, mmio, pages, rej) ==
    LET w0 == Emit ( w, Ev ( "hvm_iounmap", 0, pages, mmio, 0 ) )
        w1 == Emit ( [ w0 EXCEPT !.vmap = @ \ { mmio } ],
                     Ev ( "iounmap", 0, 0, mmio, 0 ) )
    IN RemoveLoop_stops ( w1, mmio, 0, pages, rej )

\* hvm_iounmap asking the hypervisor first and unmapping last
hvm_iounmap_removes_first(w, mmio, pages, rej) ==
    LET w0 == Emit ( w, Ev ( "hvm_iounmap", 0, pages, mmio, 0 ) )
        w1 == RemoveLoop ( w0, mmio, 0, pages, rej )
    IN Emit ( [ w1 EXCEPT !.vmap = @ \ { mmio } ],
              Ev ( "iounmap", 0, 0, mmio, 0 ) )

hvm_iounmap(w, mmio, pages, rej) ==
    LET w0 == Emit ( w, Ev ( "hvm_iounmap", 0, pages, mmio, 0 ) )
        w1 == Emit ( [ w0 EXCEPT !.vmap = @ \ { mmio } ],
                     Ev ( "iounmap", 0, 0, mmio, 0 ) )
    IN RemoveLoop ( w1, mmio, 0, pages, rej )

\* the inputs hvm_ioremap can meet when asked for `pages' pages, the
\* hypervisor rejecting the removal of the frames of rej
IoInputs(pages, rej) ==
    { [ ioOk |-> ok, failAt |-> pages, xenrc |-> 0, garbage |-> 0,
        rej |-> rej ] : ok \in BOOLEAN }
    \cup
    { [ ioOk |-> TRUE, failAt |-> k, xenrc |-> x, garbage |-> g, rej |-> rej ] :
        k \in 0 .. ( pages - 1 ), x \in XenErrors, g \in GarbageGpfns }

-----------------------------------------------------------------------------
(* Shared-Info Mapper *)

\* in: an input of hvm_ioremap
hvm_map_shared_info(w, in) ==
    LET got == hvm_ioremap ( w, XENMAPSPACE_shared_info, 1, in )
        w1 == [ got.w EXCEPT !.hvm.shared = got.mmio ]
    IN
    IF got.mmio = 0
    THEN [ w |-> Emit ( w1, Ev ( "hvm_map_shared_info", 0, 0, 0, 0 - ENOMEM ) ),
           rc |-> 0 - ENOMEM ]
    ELSE [ w |-> Emit ( Emit ( w1, Ev ( "readl", 0, 0, got.mmio, 0 ) ),
                        Ev ( "hvm_map_shared_info", 0, 0, 0, 0 ) ),
           rc |-> 0 ]

hvm_unmap_shared_info(w, rej) ==
    hvm_iounmap ( Emit ( w, Ev ( "hvm_unmap_shared_info", 0, 0, 0, 0 ) ),
                  w.hvm.shared, 1, rej )

-----------------------------------------------------------------------------
(* Grant-Table Mapper *)

\* the version check left out
version_refused_never(version) == FALSE

\* the check of the version the hypervisor reports back
version_refused(version) == version # 2

\* in: [ qrc, nr_frames, vrc, version, io ]
\*   qrc       status of xengrant_query_size, nr_frames the size it reports
\*   vrc       status of xengrant_set_version, version the version it
\*             reports back
\*   io        the input of hvm_ioremap
hvm_map_grant(w, in) ==
    LET len == ( in.nr_frames % UINT_PAGES ) * PAGE_SIZE
        w1 == Emit ( w, Ev ( "xengrant_query_size", 0, in.nr_frames, 0,
                             in.qrc ) )
        w2 == Emit ( w1, Ev ( "xengrant_set_version", 0, in.version, 0,
                              in.vrc ) )
        got == hvm_ioremap ( w2, XENMAPSPACE_grant_table, in.nr_frames, in.io )
        w3 == [ got.w EXCEPT !.hvm.grant_table = got.mmio ]
        ret(ww, r) ==
            [ w |-> Emit ( ww, Ev ( "hvm_map_grant", 0, 0, 0, r ) ), rc |-> r ]
    IN
    IF in.qrc # 0 THEN ret ( w1, 0 - EXEN ( in.qrc ) )
    ELSE IF in.vrc # 0 THEN ret ( w2, 0 - EXEN ( in.vrc ) )
    ELSE IF version_refused ( in.version ) THEN ret ( w2, 0 - ENOTTY )
    ELSE IF got.mmio = 0 THEN ret ( w3, 0 - ENODEV )
    ELSE ret ( [ w3 EXCEPT !.hvm.grant_count = len \div GRANT_ENTRY_SIZE ], 0 )

\* hvm_unmap_grant taking the entry count for a byte count
hvm_unmap_grant_count_as_len(w, rej) ==
    LET len == w.hvm.grant_count IN
    hvm_iounmap ( Emit ( w, Ev ( "hvm_unmap_grant", 0, 0, 0, 0 ) ),
                  w.hvm.grant_table, len \div PAGE_SIZE, rej )

hvm_unmap_grant(w, rej) ==
    LET len == w.hvm.grant_count * GRANT_ENTRY_SIZE IN
    hvm_iounmap ( Emit ( w, Ev ( "hvm_unmap_grant", 0, 0, 0, 0 ) ),
                  w.hvm.grant_table, len \div PAGE_SIZE, rej )

-----------------------------------------------------------------------------
(* Control-Plane Mapper *)

\* in: [ erc, evtchn, prc, pfn, ioOk, rrc ]
\*   erc, evtchn  status and value of the HVM_PARAM_STORE_EVTCHN get
\*   prc, pfn     status and value of the HVM_PARAM_STORE_PFN get
\*   ioOk         ioremap succeeds
\*   rrc          status of xenstore_read of "name"
hvm_map_xenstore(w, in) ==
    LET xenstore_phys == in.pfn * PAGE_SIZE
        w1 == Emit ( w, Ev ( "xen_hvm_get_param", 0, 0, in.evtchn, in.erc ) )
        w2 == Emit ( [ w1 EXCEPT !.hvm.store_port = in.evtchn ],
                     Ev ( "xen_hvm_get_param", 0, 1, in.pfn, in.prc ) )
        w3f == Emit ( [ w2 EXCEPT !.hvm.store_intf = 0 ],
                      Ev ( "ioremap", 0, PAGE_SIZE, xenstore_phys, 0 - 1 ) )
        w3 == Emit ( [ w2 EXCEPT !.hvm.store_intf = xenstore_phys,
                                 !.vmap = @ \cup { xenstore_phys } ],
                     Ev ( "ioremap", 0, PAGE_SIZE, xenstore_phys, 0 ) )
        w4 == Emit ( w3, Ev ( "xenstore_read", 0, 0, 0, in.rrc ) )
        ret(ww, r) ==
            [ w |-> Emit ( ww, Ev ( "hvm_map_xenstore", 0, 0, 0, r ) ),
              rc |-> r ]
    IN
    IF in.erc # 0 THEN ret ( w1, 0 - EXEN ( in.erc ) )
    ELSE IF in.prc # 0 THEN ret ( w2, 0 - EXEN ( in.prc ) )
    ELSE IF ~ in.ioOk THEN ret ( w3f, 0 - ENODEV )
    ELSE IF in.rrc # 0 THEN ret ( w4, in.rrc )
    ELSE ret ( w4, 0 )

\* hvm_unmap_xenstore releasing the page as a region of the MMIO window
hvm_unmap_xenstore_as_region(w) ==
    hvm_iounmap ( Emit ( w, Ev ( "hvm_unmap_xenstore", 0, 0, 0, 0 ) ),
                  w.hvm.store_intf, 1, {} )

hvm_unmap_xenstore(w) ==
    LET w1 == Emit ( w, Ev ( "hvm_unmap_xenstore", 0, 0, 0, 0 ) ) IN
    Emit ( [ w1 EXCEPT !.vmap = @ \ { w.hvm.store_intf } ],
           Ev ( "iounmap", 0, 0, w.hvm.store_intf, 0 ) )

-----------------------------------------------------------------------------
(* Attachment Orchestrator: hvm_probe and hvm_remove *)

free_hvm(w) ==
    Emit ( [ w EXCEPT !.live = FALSE ], Ev ( "free", 0, 0, HvmPtr, 0 ) )

\* the unwind labels of hvm_probe; each falls through to the next
err_cpuid_base(w, rej) == free_hvm ( w )
err_map_hypercall(w, rej) == err_cpuid_base ( w, rej )
err_map_shared_info(w, rej) ==
    err_map_hypercall ( hvm_unmap_hypercall ( w ), rej )
\* err_map_grant with the shared info page left mapped
err_map_grant_keeps_shared(w, rej) == err_map_shared_info ( w, rej )

err_map_grant(w, rej) ==
    err_map_shared_info ( hvm_unmap_shared_info ( w, rej ), rej )
err_map_xenstore(w, rej) ==
    err_map_grant ( hvm_unmap_grant ( w, rej ), rej )
\* the unwind entered one label early, at the bus teardown
err_xenbus_probe_with_teardown(w, rej) ==
    err_map_xenstore (
        hvm_unmap_xenstore ( Emit ( w, Ev ( "xenbus_remove", 0, 0, 0, 0 ) ) ),
        rej )

err_xenbus_probe(w, rej) ==
    err_map_xenstore ( hvm_unmap_xenstore ( w ), rej )

\* the variables take the values of world w
Becomes(w) ==
    /\ live' = w.live
    /\ hvm' = w.hvm
    /\ dma' = w.dma
    /\ vmap' = w.vmap
    /\ physmap' = w.physmap
    /\ log' = w.log

\* hvm_probe returning one code for every failure
ProbeFails_one_code(w, r) ==
    /\ Becomes ( Emit ( w, Ev ( "hvm_probe", 0, 0, 0, 0 - ENODEV ) ) )
    /\ rc' = 0 - ENODEV
    /\ pc' = "failed"
    /\ UNCHANGED drvdata

\* hvm_probe returns status r, having unwound to world w
ProbeFails(w, r) ==
    /\ Becomes ( Emit ( w, Ev ( "hvm_probe", 0, 0, 0, r ) ) )
    /\ rc' = r
    /\ pc' = "failed"
    /\ UNCHANGED drvdata

\* hvm_probe goes on to step `next' in world w
ProbeGoes(w, next) ==
    /\ Becomes ( w )
    /\ pc' = next
    /\ UNCHANGED << rc, drvdata >>

\* hvm_probe, lines 442-454: allocate and initialise the structure
hvm_probe_alloc ==
    /\ pc = "unprobed"
    /\ UNCHANGED cpuid_table
    /\ \E ok \in BOOLEAN, len \in WindowLens :
         IF ok
         THEN ProbeGoes (
                  Emit ( [ World EXCEPT !.live = TRUE,
                               !.hvm = [ HvmZero EXCEPT !.mmio = MmioBase,
                                                        !.mmio_len = len ] ],
                         Ev ( "zalloc", 0, 0, HvmPtr, 0 ) ),
                  "cpuid_base" )
         ELSE ProbeFails ( Emit ( World, Ev ( "zalloc", 0, 0, 0, 0 - ENOMEM ) ),
                           0 - ENOMEM )

\* hvm_probe, lines 457-458
hvm_probe_cpuid_base ==
    /\ pc = "cpuid_base"
    /\ \E table \in CpuidTables :
         LET r == hvm_cpuid_base ( World, table ) IN
         /\ cpuid_table' = table
         /\ IF r.rc = 0
            THEN ProbeGoes ( r.w, "map_hypercall" )
            ELSE ProbeFails ( err_cpuid_base ( r.w, {} ), r.rc )

\* hvm_probe, lines 459-460
hvm_probe_map_hypercall ==
    /\ pc = "map_hypercall"
    /\ UNCHANGED cpuid_table
    /\ \E pages \in 1 .. MaxHypercallPages, dmaOk \in BOOLEAN,
          version \in { 262145, 0 - 1 }, xenrc \in XenStatus :
         LET r == hvm_map_hypercall ( World,
                      [ pages |-> pages, dmaOk |-> dmaOk,
                        version |-> version, xenrc |-> xenrc ] )
         IN IF r.rc = 0
            THEN ProbeGoes ( r.w, "map_shared_info" )
            ELSE ProbeFails ( err_map_hypercall ( r.w, {} ), r.rc )

\* hvm_probe going on to the grant table whatever hvm_map_shared_info returns
hvm_probe_map_shared_info_unchecked ==
    /\ pc = "map_shared_info"
    /\ UNCHANGED cpuid_table
    /\ \E rej \in SUBSET WindowGpfns :
       \E in \in IoInputs ( 1, rej ) :
         ProbeGoes ( hvm_map_shared_info ( World, in ).w, "map_grant" )

\* hvm_probe, lines 461-462
hvm_probe_map_shared_info ==
    /\ pc = "map_shared_info"
    /\ UNCHANGED cpuid_table
    /\ \E rej \in SUBSET WindowGpfns :
       \E in \in IoInputs ( 1, rej ) :
         LET r == hvm_map_shared_info ( World, in ) IN
         IF r.rc = 0
         THEN ProbeGoes ( r.w, "map_grant" )
         ELSE ProbeFails ( err_map_shared_info ( r.w, rej ), r.rc )

\* the inputs hvm_map_grant can meet, the hypervisor rejecting the removal
\* of the frames of rej
GrantInputs(rej) ==
    { [ qrc |-> q, nr_frames |-> 0, vrc |-> 0, version |-> 2,
        io |-> [ ioOk |-> TRUE, failAt |-> 0, xenrc |-> 0, garbage |-> 0,
                 rej |-> rej ] ] : q \in XenErrors }
    \cup
    UNION { { [ qrc |-> 0, nr_frames |-> f, vrc |-> v, version |-> n,
                io |-> i ] :
              v \in XenStatus, n \in { 2, 3 }, i \in IoInputs ( f, rej ) } :
            f \in 0 .. MaxFrames }

\* hvm_probe, lines 463-464
hvm_probe_map_grant ==
    /\ pc = "map_grant"
    /\ UNCHANGED cpuid_table
    /\ \E rej \in SUBSET WindowGpfns :
       \E in \in GrantInputs ( rej ) :
         LET r == hvm_map_grant ( World, in ) IN
         IF r.rc = 0
         THEN ProbeGoes ( r.w, "map_xenstore" )
         ELSE ProbeFails ( err_map_grant ( r.w, rej ), r.rc )

\* hvm_probe, lines 465-466
hvm_probe_map_xenstore ==
    /\ pc = "map_xenstore"
    /\ UNCHANGED cpuid_table
    /\ \E erc \in XenStatus, evtchn \in StoreEvtchns, prc \in XenStatus,
          pfn \in StorePfns, ioOk \in BOOLEAN, rrc \in { 0 } \cup IpxeErrors,
          rej \in SUBSET WindowGpfns :
         LET r == hvm_map_xenstore ( World,
                      [ erc |-> erc, evtchn |-> evtchn, prc |-> prc,
                        pfn |-> pfn, ioOk |-> ioOk, rrc |-> rrc ] )
         IN IF r.rc = 0
            THEN ProbeGoes ( r.w, "xenbus_probe" )
            ELSE ProbeFails ( err_map_xenstore ( r.w, rej ), r.rc )

\* hvm_probe, lines 468-476
hvm_probe_xenbus_probe ==
    /\ pc = "xenbus_probe"
    /\ UNCHANGED cpuid_table
    /\ \E brc \in { 0 } \cup IpxeErrors, rej \in SUBSET WindowGpfns :
         LET w1 == Emit ( World, Ev ( "xenbus_probe", 0, 0, 0, brc ) ) IN
         IF brc = 0
         THEN /\ Becomes ( Emit ( Emit ( w1,
                               Ev ( "pci_set_drvdata", 0, 0, HvmPtr, 0 ) ),
                               Ev ( "hvm_probe", 0, 0, 0, 0 ) ) )
              /\ drvdata' = HvmPtr
              /\ rc' = 0
              /\ pc' = "attached"
         ELSE ProbeFails ( err_xenbus_probe ( w1, rej ), brc )

\* hvm_remove releasing the grant table before the XenStore page
hvm_remove_misordered ==
    /\ pc = "attached"
    /\ UNCHANGED << cpuid_table, rc, drvdata >>
    /\ \E rej \in SUBSET WindowGpfns :
         LET w1 == Emit ( World, Ev ( "xenbus_remove", 0, 0, 0, 0 ) )
             w2 == hvm_unmap_grant ( w1, rej )
             w3 == hvm_unmap_xenstore ( w2 )
             w4 == hvm_unmap_shared_info ( w3, rej )
             w5 == hvm_unmap_hypercall ( w4 )
         IN /\ Becomes ( Emit ( free_hvm ( w5 ),
                                Ev ( "hvm_remove", 0, 0, 0, 0 ) ) )
            /\ pc' = "removed"

\* hvm_remove, lines 499-508
hvm_remove ==
    /\ pc = "attached"
    /\ UNCHANGED << cpuid_table, rc, drvdata >>
    /\ \E rej \in SUBSET WindowGpfns :
         LET w1 == Emit ( World, Ev ( "xenbus_remove", 0, 0, 0, 0 ) )
             w2 == hvm_unmap_xenstore ( w1 )
             w3 == hvm_unmap_grant ( w2, rej )
             w4 == hvm_unmap_shared_info ( w3, rej )
             w5 == hvm_unmap_hypercall ( w4 )
         IN /\ Becomes ( Emit ( free_hvm ( w5 ),
                                Ev ( "hvm_remove", 0, 0, 0, 0 ) ) )
            /\ pc' = "removed"

Next ==
    \/ hvm_probe_alloc
    \/ hvm_probe_cpuid_base
    \/ hvm_probe_map_hypercall
    \/ hvm_probe_map_shared_info
    \/ hvm_probe_map_grant
    \/ hvm_probe_map_xenstore
    \/ hvm_probe_xenbus_probe
    \/ hvm_remove

Spec == Init /\ [][Next]_vars

TypeOK ==
    /\ pc \in { "unprobed", "cpuid_base", "map_hypercall", "map_shared_info",
                "map_grant", "map_xenstore", "xenbus_probe", "attached",
                "failed", "removed" }
    /\ live \in BOOLEAN
    /\ drvdata \in { 0, HvmPtr }

-----------------------------------------------------------------------------
(* Reading the record of calls *)

\* the steps of attach that acquire a resource, in the order of hvm_probe
AcquireOps ==
    << "hvm_map_hypercall", "hvm_map_shared_info", "hvm_map_grant",
       "hvm_map_xenstore" >>
\* the release of each, in the same order
ReleaseOps ==
    << "hvm_unmap_hypercall", "hvm_unmap_shared_info", "hvm_unmap_grant",
       "hvm_unmap_xenstore" >>
\* every step of attach that can fail
StageOps == { "hvm_cpuid_base" } \cup { AcquireOps[n] : n \in 1 .. 4 }

Range(f) == { f[n] : n \in DOMAIN f }
Reverse(q) == [ n \in 1 .. Len ( q ) |-> q[ ( Len ( q ) + 1 ) - n ] ]
OpsOf(q) == [ n \in 1 .. Len ( q ) |-> q[n].op ]
\* the release that undoes acquisition `op'
ReleaseOf(op) == ReleaseOps[ CHOOSE n \in 1 .. 4 : AcquireOps[n] = op ]

\* the acquisitions that completed, in the order they completed
Acquired ==
    OpsOf ( SelectSeq ( log, LAMBDA e : e.op \in Range ( AcquireOps )
                                        /\ e.st = 0 ) )
\* the releases called, in the order they were called
Released == OpsOf ( SelectSeq ( log, LAMBDA e : e.op \in Range ( ReleaseOps ) ) )

\* some stage of attach returned a failure
StageFailed == \E n \in 1 .. Len ( log ) : log[n].op \in StageOps /\ log[n].st # 0
\* the position at which the stage that failed returned
FailedAt == CHOOSE n \in 1 .. Len ( log ) : log[n].op \in StageOps /\ log[n].st # 0
\* stage `op' returned a failure
Failed(op) == \E n \in 1 .. Len ( log ) : log[n].op = op /\ log[n].st # 0

\* first and last position of `op' in the record (0 when absent)
FirstPos(op) ==
    IF \E n \in 1 .. Len ( log ) : log[n].op = op
    THEN CHOOSE n \in 1 .. Len ( log ) :
             /\ log[n].op = op
             /\ \A m \in 1 .. ( n - 1 ) : log[m].op # op
    ELSE 0
LastPos(op) ==
    IF \E n \in 1 .. Len ( log ) : log[n].op = op
    THEN CHOOSE n \in 1 .. Len ( log ) :
             /\ log[n].op = op
             /\ \A m \in ( n + 1 ) .. Len ( log ) : log[m].op # op
    ELSE 0

-----------------------------------------------------------------------------
(* C1..C4: rollback and teardown order *)

\* C1: when a stage of attach fails (locator, transport, shared-info,
\* grant-table or control-plane), the releases made before attach returns
\* are exactly those of the stages that had completed, in the reverse of
\* the order of acquisition, all of them after the failure; then the device
\* state is freed and attach returns a failure.
C1_RollbackReversesAcquisition ==
    ( pc = "failed" /\ StageFailed ) =>
        /\ Released = Reverse ( [ n \in 1 .. Len ( Acquired ) |->
                                    ReleaseOf ( Acquired[n] ) ] )
        /\ \A n \in 1 .. Len ( log ) :
               log[n].op \in Range ( ReleaseOps ) => n > FailedAt
        /\ Len ( log ) >= 2
        /\ log[ Len ( log ) - 1 ].op = "free"
        /\ \A n \in 1 .. ( Len ( log ) - 2 ) : log[n].op # "free"
        /\ log[ Len ( log ) ].op = "hvm_probe"
        /\ log[ Len ( log ) ].st = rc
        /\ rc # 0
        /\ ~ live

\* attach failed in the control-plane mapper, after three stages completed
C1_Witness ==
    /\ pc = "failed"
    /\ Failed ( "hvm_map_xenstore" )
    /\ Len ( Released ) = 3

\* C2: if control-plane mapping fails after transport, shared-info and
\* grant-table succeeded, at any of its sub-steps, the releases are
\* grant-table, shared-info, transport, and no page remains mapped when
\* attach returns, the control-plane page included.
C2_XenstoreFailureLeavesNothingMapped ==
    ( pc = "failed" /\ Failed ( "hvm_map_xenstore" ) ) =>
        /\ Released = << "hvm_unmap_grant", "hvm_unmap_shared_info",
                         "hvm_unmap_hypercall" >>
        /\ vmap = {}

\* C3: once attach has returned a failure, no hypercall page is allocated.
C3_NoHypercallPagesAfterFailure ==
    pc = "failed" => dma = {}

\* the frames whose removal the hypervisor rejected
RejectedFrames ==
    { log[n].p : n \in { m \in 1 .. Len ( log ) :
                           log[m].op = "remove_from_physmap" /\ log[m].st # 0 } }

\* C4: for a successful attach followed by detach, the acquisitions are
\* transport, shared-info, grant-table, control-plane, bus enumeration, the
\* releases are the same in reverse, and after detach nothing acquired by
\* attach is held: no hypercall page, no virtual mapping, no device state,
\* and no frame in the physical address map but those whose removal the
\* hypervisor rejected.
C4_DetachReversesAttach ==
    pc = "removed" =>
        LET calls ==
                OpsOf ( SelectSeq ( log, LAMBDA e :
                    \/ e.op \in Range ( AcquireOps ) \cup Range ( ReleaseOps )
                    \/ e.op \in { "xenbus_probe", "xenbus_remove" } ) )
            undo(op) ==
                IF op = "xenbus_probe" THEN "xenbus_remove" ELSE ReleaseOf ( op )
        IN
        /\ Len ( calls ) = 10
        /\ SubSeq ( calls, 1, 5 ) = AcquireOps \o << "xenbus_probe" >>
        /\ SubSeq ( calls, 6, 10 ) =
               Reverse ( [ n \in 1 .. 5 |-> undo ( calls[n] ) ] )
        /\ dma = {}
        /\ vmap = {}
        /\ ~ live
        /\ physmap \subseteq RejectedFrames

\* detach has run after an attach that mapped a grant table of two pages
C4_Witness ==
    /\ pc = "removed"
    /\ \E n \in 1 .. Len ( log ) :
           log[n].op = "hvm_iounmap" /\ log[n].i = 2

-----------------------------------------------------------------------------
(* C5..C7: the MMIO window allocator and the grant-table mapper *)

\* the positions of the add requests that the hypervisor rejected at a
\* page other than the first
LateAddFailures ==
    { n \in 1 .. Len ( log ) :
        log[n].op = "add_to_physmap" /\ log[n].st # 0 /\ log[n].i >= 1 }

\* C5: when the add request for the k-th page (k > 1) fails, exactly the
\* first k-1 pages are removed, each request naming the frame that was
\* added, in descending index order, the virtual mapping is released, and
\* no page of the call stays in the physical address map (but for a frame
\* whose removal the hypervisor rejected).
C5_RollbackRemovesAddedFrames ==
    \A n \in LateAddFailures :
        LET added == log[n].i IN
        /\ Len ( log ) > n + added
        /\ \A j \in 1 .. added :
               /\ log[n + j].op = "remove_from_physmap"
               /\ log[n + j].p = log[n - j].p
        /\ log[n + added + 1].op = "iounmap"
        /\ \A j \in 1 .. added :
               log[n - j].p \in physmap => log[n - j].p \in RejectedFrames

\* the steps hvm_ioremap makes between its call and its return
IoremapSteps == { "ioremap", "add_to_physmap", "remove_from_physmap", "iounmap" }

\* C6: a request to hvm_ioremap for more pages than the window has left
\* returns NULL at once: no ioremap, no add or remove request, and the bump
\* offset stays as it was.
C6_NoSpaceIsNoOp ==
    [][ \A n \in ( Len ( log ) + 1 ) .. Len ( log' ) :
          ( /\ log'[n].op = "hvm_ioremap"
            /\ log'[n].i * PAGE_SIZE > hvm.mmio_len - hvm.mmio_offset )
          => /\ log'[n + 1].op = "hvm_ioremap.ret"
             /\ log'[n + 1].p = 0
             /\ hvm'.mmio_offset = hvm.mmio_offset ]_vars

\* hvm_ioremap was asked for the grant table's pages when the window had
\* room for fewer, the shared info page being mapped
C6_Witness ==
    \E n \in 1 .. Len ( log ) :
        /\ log[n].op = "hvm_ioremap"
        /\ log[n].k = XENMAPSPACE_grant_table
        /\ log[n].i * PAGE_SIZE > hvm.mmio_len - hvm.mmio_offset
        /\ hvm.mmio_offset = PAGE_SIZE

\* C7: when set-version returns success but reports a version other than
\* 2, hvm_map_grant fails with -ENOTTY and maps nothing: hvm_ioremap is not
\* called, no add request is made and the bump offset stays as it was.
C7_VersionMismatchMapsNothing ==
    [][ \A n \in ( Len ( log ) + 1 ) .. Len ( log' ) :
          ( /\ log'[n].op = "xengrant_set_version"
            /\ log'[n].st = 0
            /\ log'[n].i # 2 )
          => /\ log'[n + 1].op = "hvm_map_grant"
             /\ log'[n + 1].st = 0 - ENOTTY
             /\ rc' = 0 - ENOTTY
             /\ \A m \in ( Len ( log ) + 1 ) .. Len ( log' ) :
                    log'[m].op \notin { "hvm_ioremap", "ioremap", "add_to_physmap" }
             /\ hvm'.mmio_offset = hvm.mmio_offset
             /\ hvm'.grant_table = 0 ]_vars

\* the hypervisor accepted set-version and reported version 3, having
\* reported a grant table of two frames
C7_Witness ==
    \E n \in 2 .. Len ( log ) :
        /\ log[n].op = "xengrant_set_version"
        /\ log[n].st = 0
        /\ log[n].i = 3
        /\ log[n - 1].op = "xengrant_query_size"
        /\ log[n - 1].i = 2

-----------------------------------------------------------------------------
(* C8..C10: the locator, detach, and failed attaches *)

\* the leaves of the table that the scan reads: from the minimum to the
\* maximum base, on the stride
ScannedMatches ==
    { l \in cpuid_table :
        /\ HVM_CPUID_MIN <= l
        /\ l <= HVM_CPUID_MAX
        /\ ( l - HVM_CPUID_MIN ) % HVM_CPUID_STEP = 0 }

\* C8: the locator returns the lowest scanned leaf that holds the
\* signature (the leaf that holds it, when it is one), and -ENODEV when no
\* scanned leaf holds it; on -ENODEV attach calls nothing more but the
\* release of the device state.
C8_LocatorFindsSignature ==
    FirstPos ( "hvm_cpuid_base" ) # 0 =>
        LET e == log[ FirstPos ( "hvm_cpuid_base" ) ] IN
        IF ScannedMatches # {}
        THEN /\ e.st = 0
             /\ e.p \in ScannedMatches
             /\ \A l \in ScannedMatches : e.p <= l
             /\ hvm.cpuid_base = e.p
        ELSE /\ e.st = 0 - ENODEV
             /\ pc = "failed"
             /\ rc = 0 - ENODEV
             /\ OpsOf ( log ) = << "zalloc", "hvm_cpuid_base", "free", "hvm_probe" >>
             /\ dma = {} /\ vmap = {} /\ physmap = {} /\ drvdata = 0

\* the locator found the signature at the last leaf of the range
C8_Witness ==
    /\ FirstPos ( "hvm_cpuid_base" ) # 0
    /\ cpuid_table = { HVM_CPUID_MAX }
    /\ hvm.cpuid_base = HVM_CPUID_MAX

\* the locator found no signature, the table holding it off the stride
C8_WitnessNotFound ==
    /\ FirstPos ( "hvm_cpuid_base" ) # 0
    /\ cpuid_table = { HVM_CPUID_MIN + 128 }
    /\ rc = 0 - ENODEV

\* the frames that attach added to the physical address map
AddedFrames ==
    { log[n].p : n \in { m \in 1 .. Len ( log ) :
                           log[m].op = "add_to_physmap" /\ log[m].st = 0 } }

\* C9: detach runs to completion whichever removals the hypervisor
\* rejects: the five releases are called in order (bus teardown,
\* control-plane, grant-table, shared-info, transport), a remove request is
\* made for every frame that attach added, and the device state is freed.
C9_DetachAlwaysCompletes ==
    pc = "removed" =>
        LET from == FirstPos ( "xenbus_remove" )
            steps == SelectSeq ( SubSeq ( log, from, Len ( log ) ),
                         LAMBDA e : e.op \in Range ( ReleaseOps )
                                        \cup { "xenbus_remove", "free",
                                               "hvm_remove" } )
        IN
        /\ from # 0
        /\ OpsOf ( steps ) =
               << "xenbus_remove", "hvm_unmap_xenstore", "hvm_unmap_grant",
                  "hvm_unmap_shared_info", "hvm_unmap_hypercall", "free",
                  "hvm_remove" >>
        /\ \A f \in AddedFrames :
               \E n \in from .. Len ( log ) :
                   log[n].op = "remove_from_physmap" /\ log[n].p = f
        /\ Cardinality ( { n \in from .. Len ( log ) :
                             log[n].op = "remove_from_physmap" } )
               = Cardinality ( AddedFrames )
        /\ ~ live

\* detach completed although the hypervisor rejected the removal of the
\* first of three frames
C9_Witness ==
    /\ pc = "removed"
    /\ Cardinality ( AddedFrames ) = 3
    /\ ( MmioBase \div PAGE_SIZE ) \in RejectedFrames

\* the calls by which attach acquires something or goes on
ForwardOps ==
    StageOps \cup { "malloc_dma", "wrmsr", "ioremap", "add_to_physmap",
                    "hvm_ioremap", "xengrant_query_size",
                    "xengrant_set_version", "xen_hvm_get_param",
                    "xenstore_read", "xenbus_probe", "pci_set_drvdata" }

\* C10: once a stage of attach fails, no later stage, no acquisition and
\* no bus enumeration is called in that attach and the driver data is not
\* set; the driver data is set only when every stage and the bus
\* enumeration succeeded.
C10_FailedAttachStaysUnattached ==
    /\ StageFailed =>
           /\ \A n \in ( FailedAt + 1 ) .. Len ( log ) :
                  log[n].op \notin ForwardOps
           /\ drvdata = 0
           /\ pc = "failed"
    /\ pc = "failed" => drvdata = 0
    /\ drvdata # 0 =>
           /\ ~ StageFailed
           /\ Acquired = AcquireOps
           /\ \E n \in 1 .. Len ( log ) :
                  log[n].op = "xenbus_probe" /\ log[n].st = 0
           /\ \E n \in 1 .. Len ( log ) :
                  log[n].op = "hvm_cpuid_base" /\ log[n].st = 0

\* attach failed in the shared-info mapper
C10_Witness ==
    /\ pc = "failed"
    /\ Failed ( "hvm_map_shared_info" )

-----------------------------------------------------------------------------
(* C11, C12: the error attach reports, and the verification queries *)

\* the call whose outcome made the failing stage return
Culprit == log[ FailedAt - 1 ]
\* the stage that failed
FailedStage == log[ FailedAt ].op
\* the failing stage failed because hvm_ioremap returned NULL
AllocatorFailed ==
    /\ StageFailed
    /\ FailedStage \in { "hvm_map_shared_info", "hvm_map_grant" }
    /\ Culprit.op = "hvm_ioremap.ret"
\* the status with which the hypervisor rejected an add request
RejectedAdds ==
    { n \in 1 .. Len ( log ) : log[n].op = "add_to_physmap" /\ log[n].st # 0 }

AllocatorCode(stage) ==
    IF stage = "hvm_map_shared_info" THEN 0 - ENOMEM ELSE 0 - ENODEV

C12_EitherQueryFailureStopsAttach ==
    ( \E n \in 1 .. Len ( log ) :
          /\ log[n].op \in { "xenver_version", "xenver_extraversion" }
          /\ log[n].st < 0 )
    => /\ Failed ( "hvm_map_hypercall" )
       /\ pc = "failed"
       /\ FirstPos ( "hvm_ioremap" ) = 0
       /\ FirstPos ( "hvm_map_shared_info" ) = 0

-----------------------------------------------------------------------------
(* The MMIO window allocator under arbitrary callers *)

\* A device as hvm_probe leaves it at line 454, with the transport of
\* hvm_map_hypercall in place; the record starts at the first allocator call.
InitAlloc ==
    /\ pc = "map_shared_info"
    /\ live = TRUE
    /\ \E len \in WindowLens :
         hvm = [ HvmZero EXCEPT !.cpuid_base = HVM_CPUID_MIN,
                                !.hypercall = HypercallPhys,
                                !.hypercall_len = PAGE_SIZE,
                                !.mmio = MmioBase,
                                !.mmio_len = len ]
    /\ dma = { HypercallPhys }
    /\ vmap = {}
    /\ physmap = {}
    /\ log = << >>
    /\ rc = 0
    /\ drvdata = 0
    /\ cpuid_table = { HVM_CPUID_MIN }

\* positions in the record at which hvm_ioremap returned a region
Granted ==
    { n \in 1 .. Len ( log ) : log[n].op = "hvm_ioremap.ret" /\ log[n].p # 0 }
\* the regions the callers still hold
Held ==
    { n \in Granted :
        \A k \in 1 .. Len ( log ) :
            ~ ( log[k].op = "hvm_iounmap" /\ log[k].p = log[n].p ) }
\* the guest frames of the region returned at position n
FramesOf(n) ==
    { ( log[n].p \div PAGE_SIZE ) + j : j \in 0 .. ( log[n].i - 1 ) }
\* number of calls of hvm_ioremap so far
Calls == Cardinality ( { n \in 1 .. Len ( log ) : log[n].op = "hvm_ioremap" } )

\* a caller asks hvm_ioremap for 1 .. MaxFrames pages
ioremap_call ==
    /\ Calls < MaxCalls
    /\ \E pages \in 1 .. MaxFrames : \E in \in IoInputs ( pages, {} ) :
         Becomes ( hvm_ioremap ( World, XENMAPSPACE_grant_table, pages,
                                 in ).w )
    /\ UNCHANGED << pc, rc, drvdata, cpuid_table >>

\* a caller hands a region it holds back to hvm_iounmap
iounmap_call ==
    /\ \E n \in Held : \E rej \in SUBSET FramesOf ( n ) :
         Becomes ( hvm_iounmap ( World, log[n].p, log[n].i, rej ) )
    /\ UNCHANGED << pc, rc, drvdata, cpuid_table >>

NextAlloc ==
    \/ ioremap_call
    \/ iounmap_call

SpecAlloc == InitAlloc /\ [][NextAlloc]_vars

-----------------------------------------------------------------------------
(* C13: the bump offset *)

\* the event an allocator call leaves last in the record
LastEv == log'[ Len ( log' ) ]

C13_Step ==
    /\ 0 <= hvm'.mmio_offset
    /\ hvm'.mmio_offset <= hvm'.mmio_len
    /\ IF LastEv.op = "hvm_ioremap.ret" /\ LastEv.p # 0
       THEN hvm'.mmio_offset = hvm.mmio_offset + ( LastEv.i * PAGE_SIZE )
       ELSE hvm'.mmio_offset = hvm.mmio_offset

\* C13: over every sequence of hvm_ioremap and hvm_iounmap calls on one
\* device the bump offset stays within 0 .. mmio_len and never decreases: a
\* successful allocation of n pages adds exactly n * PAGE_SIZE to it; a
\* failed allocation and every release leave it unchanged.
C13_OffsetBoundedMonotone == [][ C13_Step ]_vars

\* two pages allocated, then an allocation that failed for lack of space
\* and the release of the two pages: the offset is still two pages
C13_Witness ==
    /\ hvm.mmio_offset = 2 * PAGE_SIZE
    /\ Calls = 2
    /\ \E n \in Granted : log[n].i = 2 /\ n < FirstPos ( "hvm_iounmap" )
    /\ Cardinality ( Granted ) = 1
    /\ Held = {}
    /\ log[ Len ( log ) ].op = "remove_from_physmap"

-----------------------------------------------------------------------------
(* C14: write, then verify *)

\* the calls that go through the hypercall pages
HypercallOps ==
    { "xenver_version", "xenver_extraversion", "add_to_physmap",
      "remove_from_physmap", "xengrant_query_size", "xengrant_set_version",
      "xen_hvm_get_param", "xenstore_read" }

\* C14: no hypervisor call (version query, physical-address-map add or
\* remove, grant-table query or set-version, parameter get, key/value read)
\* is issued before the register write that installs the hypercall pages,
\* and that write comes only after the locator succeeded and the hypercall
\* pages were allocated.
C14_WriteThenVerify ==
    \A n \in 1 .. Len ( log ) :
        /\ log[n].op \in HypercallOps =>
               FirstPos ( "wrmsr" ) # 0 /\ FirstPos ( "wrmsr" ) < n
        /\ log[n].op = "wrmsr" =>
               \E a \in 1 .. n, b \in 1 .. n :
                   /\ a < b
                   /\ b < n
                   /\ log[a].op = "hvm_cpuid_base" /\ log[a].st = 0
                   /\ log[b].op = "malloc_dma" /\ log[b].st = 0
                   /\ log[b].p = log[n].p

\* a complete attach and detach, in which every kind of hypervisor call was
\* issued
C14_Witness ==
    /\ pc = "removed"
    /\ \A op \in HypercallOps : FirstPos ( op ) # 0

-----------------------------------------------------------------------------
(* C15: the order of a release *)

\* positions at which hvm_iounmap was entered
Releases == { n \in 1 .. Len ( log ) : log[n].op = "hvm_iounmap" }

\* C15: hvm_iounmap of a region of n pages first unmaps the virtual range,
\* then issues exactly n remove requests, one for each guest frame
\* base + 0 .. base + n - 1 in that order; a rejected removal does not stop
\* the loop.
C15_ReleaseUnmapsThenRemovesEach ==
    \A n \in Releases :
        LET pages == log[n].i
            base == log[n].p \div PAGE_SIZE
        IN /\ ( n + 1 ) + pages <= Len ( log )
           /\ log[ n + 1 ].op = "iounmap"
           /\ log[ n + 1 ].p = log[n].p
           /\ \A j \in 1 .. pages :
                  /\ log[ ( n + 1 ) + j ].op = "remove_from_physmap"
                  /\ log[ ( n + 1 ) + j ].p = base + ( j - 1 )
           /\ ( n + 2 ) + pages <= Len ( log ) =>
                  log[ ( n + 2 ) + pages ].op # "remove_from_physmap"

\* a region of two pages was released, the hypervisor rejecting the removal
\* of its first frame
C15_Witness ==
    \E n \in Releases :
        /\ log[n].i = 2
        /\ log[ n + 2 ].op = "remove_from_physmap"
        /\ log[ n + 2 ].st # 0
        /\ log[ n + 3 ].op = "remove_from_physmap"
        /\ log[ n + 3 ].st = 0

-----------------------------------------------------------------------------
(* C16: the grant table's frame count *)

\* the frame count the hypervisor reported to xengrant_query_size
ReportedFrames == log[ FirstPos ( "xengrant_query_size" ) ].i
\* the add requests made for grant table frames
GrantAdds ==
    { n \in 1 .. Len ( log ) :
        log[n].op = "add_to_physmap" /\ log[n].k = XENMAPSPACE_grant_table }

\* C16: for every frame count f the size query reports, after a successful
\* hvm_map_grant (which maps f pages) the stored capacity is
\* ( f * PAGE_SIZE ) / entry size, and hvm_unmap_grant, which recomputes the
\* page count as ( capacity * entry size ) / PAGE_SIZE, releases exactly f
\* pages.
C16_GrantFrameCountRoundTrip ==
    "hvm_map_grant" \in Range ( Acquired ) =>
        LET f == ReportedFrames IN
        /\ Cardinality ( GrantAdds ) = f
        /\ live => hvm.grant_count = ( f * PAGE_SIZE ) \div GRANT_ENTRY_SIZE
        /\ \A u \in 1 .. Len ( log ) :
               log[u].op = "hvm_unmap_grant" =>
                   /\ log[ u + 1 ].op = "hvm_iounmap"
                   /\ log[ u + 1 ].i = f
                   /\ Cardinality ( { m \in ( u + 1 ) .. Len ( log ) :
                          /\ log[m].op = "remove_from_physmap"
                          /\ \E a \in GrantAdds : log[a].p = log[m].p } ) = f

\* a grant table of two frames was mapped and, at detach, unmapped
C16_Witness ==
    /\ pc = "removed"
    /\ ReportedFrames = 2
    /\ FirstPos ( "hvm_unmap_grant" ) # 0

-----------------------------------------------------------------------------
(* C17: the control-plane page *)

\* the calls hvm_map_xenstore made: those between the return of
\* hvm_map_grant and its own return at position n
StoreCalls(n) == { m \in 1 .. ( n - 1 ) : LastPos ( "hvm_map_grant" ) < m }
\* the page frame number the HVM_PARAM_STORE_PFN get delivered
StorePfnOf(n) ==
    log[ CHOOSE m \in StoreCalls ( n ) :
             log[m].op = "xen_hvm_get_param" /\ log[m].i = 1 ].p

\* what the record shows of hvm_map_xenstore and hvm_unmap_xenstore
C17_Record ==
    /\ \A n \in 1 .. Len ( log ) :
           log[n].op = "hvm_map_xenstore" =>
               /\ \A m \in StoreCalls ( n ) :
                      /\ log[m].op \in { "xen_hvm_get_param", "ioremap",
                                         "xenstore_read" }
                      /\ log[m].op = "ioremap" =>
                             /\ log[m].i = PAGE_SIZE
                             /\ log[m].p = StorePfnOf ( n ) * PAGE_SIZE
               /\ Cardinality ( { m \in StoreCalls ( n ) :
                                    log[m].op = "ioremap" } ) <= 1
               /\ log[n].st = 0 =>
                      \E m \in StoreCalls ( n ) :
                          log[m].op = "ioremap" /\ log[m].st = 0
    /\ \A u \in 1 .. Len ( log ) :
           log[u].op = "hvm_unmap_xenstore" =>
               /\ log[ u + 1 ].op = "iounmap"
               /\ log[ u + 1 ].p =
                      StorePfnOf ( FirstPos ( "hvm_map_xenstore" ) ) * PAGE_SIZE
               /\ log[ u + 2 ].op = "hvm_unmap_grant"

C17_Step ==
    /\ ( pc = "map_xenstore" /\ pc' = "xenbus_probe" ) =>
           /\ hvm'.mmio_offset = hvm.mmio_offset
           /\ physmap' = physmap
           /\ vmap' = vmap \cup { hvm'.store_intf }
           /\ hvm'.store_intf \notin vmap
    /\ C17_Record'

\* C17: hvm_map_xenstore maps exactly one page, at physical address
\* ( HVM_PARAM_STORE_PFN value ) * PAGE_SIZE; neither it nor
\* hvm_unmap_xenstore changes the bump offset of the MMIO window or issues
\* an add or remove request; the unmap only releases that one mapping.
C17_ControlPlaneBypassesAllocator == [][ C17_Step ]_vars

\* the control-plane page was mapped at attach and unmapped at detach
C17_Witness ==
    /\ pc = "removed"
    /\ Failed ( "hvm_map_xenstore" ) = FALSE
    /\ FirstPos ( "hvm_unmap_xenstore" ) # 0
    /\ StorePfnOf ( FirstPos ( "hvm_map_xenstore" ) ) \in StorePfns

-----------------------------------------------------------------------------
(* C18: bus enumeration fails *)

\* position at which xenbus_probe returned a failure (0 if it did not)
BusFailedAt ==
    IF \E n \in 1 .. Len ( log ) : log[n].op = "xenbus_probe" /\ log[n].st # 0
    THEN CHOOSE n \in 1 .. Len ( log ) :
             log[n].op = "xenbus_probe" /\ log[n].st # 0
    ELSE 0

\* C18: if xenbus_probe fails after the five acquisition stages succeeded,
\* hvm_probe releases control-plane, grant table, shared info and transport
\* in that order, frees the device structure, returns the error of
\* xenbus_probe, and neither calls xenbus_remove nor sets the PCI device's
\* driver data.
C18_BusFailureUnwindsAll ==
    BusFailedAt # 0 =>
        /\ Acquired = AcquireOps
        /\ \A n \in 1 .. BusFailedAt : log[n].op \notin Range ( ReleaseOps )
        /\ Released = << "hvm_unmap_xenstore", "hvm_unmap_grant",
                         "hvm_unmap_shared_info", "hvm_unmap_hypercall" >>
        /\ LastPos ( "hvm_unmap_hypercall" ) < FirstPos ( "free" )
        /\ FirstPos ( "free" ) = LastPos ( "free" )
        /\ ~ live
        /\ pc = "failed"
        /\ rc = log[ BusFailedAt ].st
        /\ log[ Len ( log ) ] = Ev ( "hvm_probe", 0, 0, 0, rc )
        /\ FirstPos ( "xenbus_remove" ) = 0
        /\ FirstPos ( "pci_set_drvdata" ) = 0
        /\ drvdata = 0

\* xenbus_probe failed, with a grant table of two frames mapped
C18_Witness ==
    /\ BusFailedAt # 0
    /\ log[ BusFailedAt ].st \in IpxeErrors
    /\ ReportedFrames = 2
    /\ pc = "failed"

-----------------------------------------------------------------------------
(* C19: the ranges handed out *)

\* the end of the range returned at position n
RangeEnd(n) == log[n].p + ( log[n].i * PAGE_SIZE )
\* the allocations that succeeded before position n
GrantedBefore(n) == { m \in Granted : m < n }

\* C19: over every sequence of hvm_ioremap calls on one device the ranges
\* of the successful calls are pairwise disjoint and lie inside
\* [ mmio, mmio + mmio_len ): each successful call for n pages receives
\* [ mmio + offset before, mmio + offset before + n * PAGE_SIZE ), and no
\* range is handed out again, released or not.
C19_RangesDisjointInsideWindow ==
    \A n \in Granted :
        /\ hvm.mmio <= log[n].p
        /\ RangeEnd ( n ) <= hvm.mmio + hvm.mmio_len
        /\ \A m \in GrantedBefore ( n ) : RangeEnd ( m ) <= log[n].p
        /\ IF GrantedBefore ( n ) = {}
           THEN log[n].p = hvm.mmio
           ELSE \E m \in GrantedBefore ( n ) :
                    /\ \A k \in GrantedBefore ( n ) : k <= m
                    /\ log[n].p = RangeEnd ( m )

\* one page was handed out and released, and the next allocation of two
\* pages received the range behind it
C19_Witness ==
    \E m \in Granted, n \in Granted :
        /\ m < n
        /\ m \notin Held
        /\ \E u \in Releases : m < u /\ u < n /\ log[u].p = log[m].p
        /\ log[m].i = 1
        /\ log[n].i = 2
        /\ log[n].p = hvm.mmio + PAGE_SIZE

-----------------------------------------------------------------------------
(* C20: the space check and 32-bit arithmetic *)

\* page counts whose byte length pages * PAGE_SIZE does not fit an unsigned
\* int: the length wraps to 0, to one page, to the largest window
WidePages == { UINT_PAGES, UINT_PAGES + 1, UINT_PAGES + MaxWindowPages }

\* the inputs hvm_ioremap meets on such a call: ioremap fails, or the
\* hypervisor rejects one of the first add requests
WideInputs ==
    { [ ioOk |-> FALSE, failAt |-> 0, xenrc |-> 0, garbage |-> 0,
        rej |-> {} ] }
    \cup
    { [ ioOk |-> TRUE, failAt |-> k, xenrc |-> x, garbage |-> g, rej |-> {} ] :
        k \in 0 .. MaxAccepted, x \in XenErrors, g \in GarbageGpfns }

\* hvm_map_grant passes hvm_ioremap the frame count the hypervisor reported
ioremap_call_wide ==
    /\ Calls < MaxCalls
    /\ \E pages \in WidePages : \E in \in WideInputs :
         Becomes ( hvm_ioremap ( World, XENMAPSPACE_grant_table, pages,
                                 in ).w )
    /\ UNCHANGED << pc, rc, drvdata, cpuid_table >>

NextWrap ==
    \/ ioremap_call
    \/ ioremap_call_wide
    \/ iounmap_call

SpecWrap == InitAlloc /\ [][NextWrap]_vars

\* pages left between the bump offset and the end of the window when the
\* call entered at position n was made (its ioremap event carries the
\* address mmio + offset)
FreePagesAt(n) ==
    ( ( hvm.mmio + hvm.mmio_len ) - log[ n + 1 ].p ) \div PAGE_SIZE

\* C20 as stated: the space check of hvm_ioremap is sound under machine-word
\* arithmetic: for every page count, also one whose byte length wraps
\* modulo 2^32, a call gets past the check only if the true length fits
\* what is left of the window, so no add request names a guest frame
\* outside the window.
C20_SpaceCheckSound ==
    /\ \A n \in 1 .. Len ( log ) :
           ( log[n].op = "hvm_ioremap" /\ log[ n + 1 ].op = "ioremap" ) =>
               log[n].i <= FreePagesAt ( n )
    /\ \A n \in 1 .. Len ( log ) :
           log[n].op = "add_to_physmap" =>
               /\ hvm.mmio \div PAGE_SIZE <= log[n].p
               /\ log[n].p < ( hvm.mmio + hvm.mmio_len ) \div PAGE_SIZE

====
